---- MODULE Spec2Model ----
(***************************************************************************)
(* Model of benchmark-results/plot_performance.py: the report generator    *)
(* that loads benchmark_results.csv, prints a statistical summary and      *)
(* writes performance_analysis.png and theory_vs_practice.png.             *)
(*                                                                         *)
(* A DataFrame is a record [columns, rows]; a row is a function from       *)
(* column names to values.  A float is an exact fraction <<num, den>> in   *)
(* lowest terms, with <<1, 0>> for +inf and <<0, 0>> for NaN (the values   *)
(* IEEE division by zero yields); rounding error of the binary format is   *)
(* not represented.                                                        *)
(***************************************************************************)
EXTENDS Integers, Sequences, FiniteSets, TLC

VARIABLES
  pc,      \* position of the script: "main", "load", "summary", "plots", "theory", "saved", "done"
  csv,     \* benchmark_results.csv: <<>> when the file is absent, <<table>> otherwise
  df,      \* the DataFrame of __main__, None before the load and when the file is absent
  out,     \* the console prints, savefig and show calls, in the order they happen
  images   \* the image files written, each with its figure

vars == <<pc, csv, df, out, images>>

----------------------------------------------------------------------------
(* Bounds of the input tables *)

MaxRows == 3

SizeValues == {0, 100, 10000}
TypeValues == {"RANDOM", "WORST_CASE", "REVERSED"}
RunValues == {1, 2}

\* The runs recorded per InputType: both kinds of run for RANDOM, the run
\* without a majority element for WORST_CASE, the run with one for REVERSED
RunsOf(type) ==
  IF type = "RANDOM" THEN RunValues
  ELSE IF type = "WORST_CASE" THEN {2} ELSE {1}

----------------------------------------------------------------------------
(* Program constants *)

csv_file == "benchmark_results.csv"
performance_png == "performance_analysis.png"
theory_png == "theory_vs_practice.png"
fixed_size == 10000
ScaleFactor == 100
PanelBTypes == <<"RANDOM", "SORTED", "WORST_CASE">>
PanelCFlags == <<TRUE, FALSE>>

BaseColumns ==
  <<"ArraySize", "InputType", "HasMajority", "Time(ns)", "Comparisons", "ArrayAccess">>

None == [none |-> TRUE]

----------------------------------------------------------------------------
(* Float arithmetic on fractions *)

RECURSIVE Gcd(_, _)
Gcd(a, b) == IF b = 0 THEN a ELSE Gcd(b, a % b)

Abs(a) == IF a < 0 THEN -a ELSE a

Inf == <<1, 0>>
NaN == <<0, 0>>

\* The float p / q, for integers p and q with q >= 0.
Frac(p, q) ==
  IF q = 0
  THEN IF p = 0 THEN NaN ELSE IF p > 0 THEN Inf ELSE <<-1, 0>>
  ELSE LET g == Gcd(Abs(p), q) IN <<p \div g, q \div g>>

IsNaN(f) == f = NaN
IsFinite(f) == f[2] # 0

FAdd(f, g) ==
  IF f[2] = 0 \/ g[2] = 0
  THEN IF IsNaN(f) \/ IsNaN(g) THEN NaN
       ELSE IF f[2] = 0 /\ g[2] = 0
            THEN IF f[1] = g[1] THEN f ELSE NaN
            ELSE IF f[2] = 0 THEN f ELSE g
  ELSE Frac(f[1] * g[2] + g[1] * f[2], f[2] * g[2])

\* f / k for an integer count k >= 0
FDivInt(f, k) ==
  IF f[2] = 0
  THEN IF k = 0 THEN NaN ELSE f
  ELSE Frac(f[1], f[2] * k)

FromInt(n) == <<n, 1>>

----------------------------------------------------------------------------
(* pandas / numpy operations used by the script *)

\* df[col] as a sequence of values, in row order
Column(rows, col) == [i \in 1..Len(rows) |-> rows[i][col]]

\* df[df[col] == v]: the matching rows, in row order
Filter(rows, col, v) == SelectSeq(rows, LAMBDA r : r[col] = v)

SeqRange(s) == {s[i] : i \in 1..Len(s)}

\* Series.unique(): the distinct values in order of first appearance
RECURSIVE Unique(_)
Unique(s) ==
  IF s = <<>> THEN <<>>
  ELSE LET init == Unique(SubSeq(s, 1, Len(s) - 1))
           last == s[Len(s)]
       IN IF last \in SeqRange(init) THEN init ELSE Append(init, last)

\* Lexicographic rank of the InputType labels (string ordering of the keys)
StrRank(s) ==
  CASE s = "RANDOM" -> 1
    [] s = "REVERSED" -> 2
    [] s = "SORTED" -> 3
    [] s = "WORST_CASE" -> 4

KeyLess(col, a, b) ==
  IF col = "InputType" THEN StrRank(a) < StrRank(b) ELSE a < b

\* Insert key k into the ascending sequence s
RECURSIVE Insert(_, _, _)
Insert(col, s, k) ==
  IF s = <<>> THEN <<k>>
  ELSE IF KeyLess(col, k, s[1]) THEN <<k>> \o s
  ELSE <<s[1]>> \o Insert(col, Tail(s), k)

RECURSIVE SortKeys(_, _)
SortKeys(col, s) ==
  IF s = <<>> THEN <<>>
  ELSE Insert(col, SortKeys(col, Tail(s)), s[1])

\* groupby(col) with the default sort=True: the distinct keys, ascending
GroupKeys(rows, col) == SortKeys(col, Unique(Column(rows, col)))

RECURSIVE Sum(_)
Sum(s) == IF s = <<>> THEN 0 ELSE s[1] + Sum(Tail(s))

RECURSIVE SumSq(_)
SumSq(s) == IF s = <<>> THEN 0 ELSE s[1] * s[1] + SumSq(Tail(s))

RECURSIVE FSum(_)
FSum(s) == IF s = <<>> THEN FromInt(0) ELSE FAdd(s[1], FSum(Tail(s)))

RECURSIVE Min(_)
Min(s) ==
  IF Len(s) = 1 THEN s[1]
  ELSE LET m == Min(Tail(s)) IN IF s[1] < m THEN s[1] ELSE m

RECURSIVE Max(_)
Max(s) ==
  IF Len(s) = 1 THEN s[1]
  ELSE LET m == Max(Tail(s)) IN IF s[1] > m THEN s[1] ELSE m

\* mean of an integer column of a group
Mean(s) == Frac(Sum(s), Len(s))

\* mean of a float column of a group
FMean(s) == FDivInt(FSum(s), Len(s))

\* Sample standard deviation (ddof = 1), as the square root of the sample
\* variance; NaN for a group of one row.
Std(s) ==
  [sqrt |-> Frac(Len(s) * SumSq(s) - Sum(s) * Sum(s), Len(s) * (Len(s) - 1))]

\* rows.groupby(by)[col].mean(): a Series sorted by key
GroupByMean(rows, by, col) ==
  LET keys == GroupKeys(rows, by)
  IN [index |-> keys,
      values |-> [i \in 1..Len(keys) |-> Mean(Column(Filter(rows, by, keys[i]), col))]]

\* rows.groupby(by)[col].mean() for the float column TimePerElement
GroupByFMean(rows, by, col) ==
  LET keys == GroupKeys(rows, by)
  IN [index |-> keys,
      values |-> [i \in 1..Len(keys) |-> FMean(Column(Filter(rows, by, keys[i]), col))]]

\* Variant of GroupByAgg4 that takes the first row of a group as its minimum
GroupByAgg4_First(rows, by, col) ==
  LET keys == GroupKeys(rows, by)
  IN [index |-> keys,
      values |-> [i \in 1..Len(keys) |->
                    LET g == Column(Filter(rows, by, keys[i]), col)
                    IN [mean |-> Mean(g), std |-> Std(g), min |-> g[1], max |-> Max(g)]]]

\* rows.groupby(by)[col].agg(['mean', 'std', 'min', 'max'])
GroupByAgg4(rows, by, col) ==
  LET keys == GroupKeys(rows, by)
  IN [index |-> keys,
      values |-> [i \in 1..Len(keys) |->
                    LET g == Column(Filter(rows, by, keys[i]), col)
                    IN [mean |-> Mean(g), std |-> Std(g), min |-> Min(g), max |-> Max(g)]]]

\* rows.groupby(by)[col].agg(['mean', 'std'])
GroupByAgg2(rows, by, col) ==
  LET keys == GroupKeys(rows, by)
  IN [index |-> keys,
      values |-> [i \in 1..Len(keys) |->
                    LET g == Column(Filter(rows, by, keys[i]), col)
                    IN [mean |-> Mean(g), std |-> Std(g)]]]

\* Variant of DivColumns with floor division (//) in place of true division
DivColumns_Floor(rows, num, den) ==
  [i \in 1..Len(rows) |->
     IF rows[i][den] = 0 THEN Frac(rows[i][num], 0)
     ELSE FromInt(rows[i][num] \div rows[i][den])]

\* Series / Series, element-wise true division
DivColumns(rows, num, den) ==
  [i \in 1..Len(rows) |-> Frac(rows[i][num], rows[i][den])]

\* df[col] = values: append the column (or overwrite it) in place
SetColumn(frame, col, values) ==
  [columns |-> IF col \in SeqRange(frame.columns) THEN frame.columns
               ELSE Append(frame.columns, col),
   rows |-> [i \in 1..Len(frame.rows) |->
               [c \in DOMAIN frame.rows[i] \cup {col} |->
                  IF c = col THEN values[i] ELSE frame.rows[i][c]]]]

----------------------------------------------------------------------------
(* The figures *)

\* plt.plot(x, y, label=label): one line; point i is (x[i], y[i])
Line(label, x, y) == [label |-> label, x |-> x, y |-> y]

\* Variant of PanelA that groups the whole table in place of the subset
PanelA_Ungrouped(rows) ==
  LET dists == Unique(Column(rows, "InputType"))
  IN [i \in 1..Len(dists) |->
        LET grouped == GroupByMean(rows, "ArraySize", "Time(ns)")
        IN Line(dists[i], grouped.index, grouped.values)]

\* Panel A: one log-log line per distinct InputType, in order of appearance
PanelA(rows) ==
  LET dists == Unique(Column(rows, "InputType"))
  IN [i \in 1..Len(dists) |->
        LET subset == Filter(rows, "InputType", dists[i])
            grouped == GroupByMean(subset, "ArraySize", "Time(ns)")
        IN Line(dists[i], grouped.index, grouped.values)]

\* Variant of PanelBFrom without the test for an empty subset
RECURSIVE PanelBFrom_NoGuard(_, _)
PanelBFrom_NoGuard(rows, i) ==
  IF i > Len(PanelBTypes) THEN <<>>
  ELSE LET subset == Filter(rows, "InputType", PanelBTypes[i])
           grouped == GroupByMean(subset, "ArraySize", "Comparisons")
       IN <<Line(PanelBTypes[i], grouped.index, grouped.values)>>
            \o PanelBFrom_NoGuard(rows, i + 1)

\* Panel B: the loop over the fixed list, from position i on
RECURSIVE PanelBFrom(_, _)
PanelBFrom(rows, i) ==
  IF i > Len(PanelBTypes) THEN <<>>
  ELSE LET subset == Filter(rows, "InputType", PanelBTypes[i])
           grouped == GroupByMean(subset, "ArraySize", "Comparisons")
       IN (IF Len(subset) > 0
           THEN <<Line(PanelBTypes[i], grouped.index, grouped.values)>>
           ELSE <<>>) \o PanelBFrom(rows, i + 1)

PanelB(rows) == PanelBFrom(rows, 1)

MajorityLabel(flag) ==
  IF flag THEN "Has Majority: True" ELSE "Has Majority: False"

\* Panel C: one line per HasMajority value, plotted also when the subset is empty
PanelC(rows) ==
  [i \in 1..Len(PanelCFlags) |->
     LET subset == Filter(rows, "HasMajority", PanelCFlags[i])
         grouped == GroupByMean(subset, "ArraySize", "ArrayAccess")
     IN Line(MajorityLabel(PanelCFlags[i]), grouped.index, grouped.values)]

\* Variant of PanelD that draws the boxplot also over an empty subset
PanelD_NoGuard(rows) ==
  LET subset == Filter(rows, "ArraySize", fixed_size)
  IN [boxplot |-> <<[data |-> subset, x |-> "InputType", y |-> "Time(ns)"]>>,
      title |-> "Performance Distribution"]

\* Panel D: the boxplot over the rows of the fixed size, if there are any
PanelD(rows) ==
  LET subset == Filter(rows, "ArraySize", fixed_size)
  IN IF Len(subset) > 0
     THEN [boxplot |-> <<[data |-> subset, x |-> "InputType", y |-> "Time(ns)"]>>,
           title |-> "Performance Distribution"]
     ELSE [boxplot |-> <<>>, title |-> ""]

PerformanceFigure(rows) ==
  [A |-> PanelA(rows), B |-> PanelB(rows), C |-> PanelC(rows), D |-> PanelD(rows)]

\* Variant of RandomSubset that keeps the records of every InputType
RandomSubset_All(rows) == rows

\* The subset the theoretical validation works on
RandomSubset(rows) == Filter(rows, "InputType", "RANDOM")

\* np.array([n * 100 for n in subset['ArraySize'].unique()])
TheoreticalN(subset) ==
  LET sizes == Unique(Column(subset, "ArraySize"))
  IN [i \in 1..Len(sizes) |-> sizes[i] * ScaleFactor]

\* subset.groupby('ArraySize')['Time(ns)'].mean().values
ActualTimes(subset) == GroupByMean(subset, "ArraySize", "Time(ns)").values

TheoryFigure(rows) ==
  LET subset == RandomSubset(rows)
      xs == Unique(Column(subset, "ArraySize"))
  IN [theoretical |-> Line("Theoretical O(n)", xs, TheoreticalN(subset)),
      actual |-> Line("Actual Performance", xs, ActualTimes(subset))]

----------------------------------------------------------------------------
(* The input tables *)

\* One benchmark record: run 1 is a run on an input with a majority element
Record(size, type, run) ==
  ("ArraySize" :> size) @@ ("InputType" :> type) @@ ("HasMajority" :> (run = 1))
  @@ ("Time(ns)" :> (IF run = 1 THEN 200 ELSE 500))
  @@ ("Comparisons" :> (IF run = 1 THEN 2 * size ELSE size + 1))
  @@ ("ArrayAccess" :> (IF run = 1 THEN 2 * size ELSE size))

Records ==
  UNION {{Record(n, t, r) : n \in SizeValues, r \in RunsOf(t)} : t \in TypeValues}

Tables == UNION {[1..k -> Records] : k \in 1..MaxRows}

\* pd.read_csv: the table of the file, with the columns of its header
read_csv(content) == [columns |-> BaseColumns, rows |-> content]

----------------------------------------------------------------------------
(* Console and file effects *)

Printed(what, data) == [op |-> "print", what |-> what, data |-> <<data>>]
Savefig(name) == [op |-> "savefig", what |-> name, data |-> <<>>]
Show == [op |-> "show", what |-> "", data |-> <<>>]

----------------------------------------------------------------------------
(* The run *)

Init ==
  /\ pc = "main"
  /\ \/ csv = <<>>
     \/ csv \in {<<t>> : t \in Tables}
  /\ df = None
  /\ out = <<>>
  /\ images = <<>>

\* __main__, lines 142-143: the banner
main ==
  /\ pc = "main"
  /\ out' = out \o <<Printed("banner", "Boyer-Moore Majority Vote Performance Analysis"),
                     Printed("rule", 50)>>
  /\ pc' = "load"
  /\ UNCHANGED <<csv, df, images>>

\* Variant of load_missing that returns an empty table in place of None
load_missing_returns_empty ==
  /\ pc = "load"
  /\ csv = <<>>
  /\ out' = Append(out, Printed("error_not_found", csv_file))
  /\ df' = read_csv(<<>>)
  /\ pc' = "summary"
  /\ UNCHANGED <<csv, images>>

\* load_and_analyze_data when the file does not exist; main then ends
load_missing ==
  /\ pc = "load"
  /\ csv = <<>>
  /\ out' = Append(out, Printed("error_not_found", csv_file))
  /\ df' = None
  /\ pc' = "done"
  /\ UNCHANGED <<csv, images>>

\* load_and_analyze_data when the file exists
load_present ==
  /\ pc = "load"
  /\ csv # <<>>
  /\ LET frame == read_csv(csv[1])
     IN /\ df' = frame
        /\ out' = out \o
             <<Printed("loaded", "Data loaded successfully:"),
               Printed("total_records", Len(frame.rows)),
               Printed("array_sizes", Unique(Column(frame.rows, "ArraySize"))),
               Printed("distributions", Unique(Column(frame.rows, "InputType")))>>
  /\ pc' = "summary"
  /\ UNCHANGED <<csv, images>>

load_and_analyze_data == load_missing \/ load_present

\* The frame after line 136
WithTimePerElement(frame) ==
  SetColumn(frame, "TimePerElement", DivColumns(frame.rows, "Time(ns)", "ArraySize"))

\* The printed events of generate_statistical_summary.  The correlation
\* coefficient is a float that fractions do not represent; its print is
\* recorded without its value.
SummaryOutput(frame) ==
  <<Printed("header", "=== STATISTICAL SUMMARY ==="),
    Printed("total_runs", Len(frame.rows)),
    Printed("sizes_tested", SortKeys("ArraySize", Unique(Column(frame.rows, "ArraySize")))),
    Printed("time_by_size", GroupByAgg4(frame.rows, "ArraySize", "Time(ns)")),
    Printed("time_by_dist", GroupByAgg2(frame.rows, "InputType", "Time(ns)")),
    Printed("correlation", "corr"),
    Printed("efficiency",
          GroupByFMean(WithTimePerElement(frame).rows, "ArraySize", "TimePerElement"))>>

generate_statistical_summary ==
  /\ pc = "summary"
  /\ out' = out \o SummaryOutput(df)
  /\ df' = WithTimePerElement(df)
  /\ pc' = "plots"
  /\ UNCHANGED <<csv, images>>

\* Variant of create_performance_plots that narrows the table itself to the
\* rows of the fixed size
create_performance_plots_inplace ==
  /\ pc = "plots"
  /\ images' = Append(images, [name |-> performance_png, figure |-> <<PerformanceFigure(df.rows)>>])
  /\ out' = out \o <<Savefig(performance_png), Show>>
  /\ df' = [df EXCEPT !.rows = Filter(df.rows, "ArraySize", fixed_size)]
  /\ pc' = "theory"
  /\ UNCHANGED csv

create_performance_plots ==
  /\ pc = "plots"
  /\ images' = Append(images, [name |-> performance_png, figure |-> <<PerformanceFigure(df.rows)>>])
  /\ out' = out \o <<Savefig(performance_png), Show>>
  /\ pc' = "theory"
  /\ UNCHANGED <<csv, df>>

create_theoretical_validation ==
  /\ pc = "theory"
  /\ images' = Append(images, [name |-> theory_png, figure |-> <<TheoryFigure(df.rows)>>])
  /\ out' = out \o <<Savefig(theory_png), Show>>
  /\ pc' = "saved"
  /\ UNCHANGED <<csv, df>>

\* Variant of main_end that prints before the theoretical validation runs
main_end_early ==
  /\ pc = "theory"
  /\ out' = Append(out, Printed("plots_saved", "Plots saved"))
  /\ pc' = "done"
  /\ UNCHANGED <<csv, df, images>>

\* __main__, line 150
main_end ==
  /\ pc = "saved"
  /\ out' = Append(out, Printed("plots_saved", "Plots saved"))
  /\ pc' = "done"
  /\ UNCHANGED <<csv, df, images>>

Next ==
  \/ main
  \/ load_and_analyze_data
  \/ generate_statistical_summary
  \/ create_performance_plots
  \/ create_theoretical_validation
  \/ main_end

Spec == Init /\ [][Next]_vars

----------------------------------------------------------------------------
(* Vocabulary of the properties *)

FilePresent == csv # <<>>

\* The table as it is in the file
Loaded == csv[1]

HasImage(name) == \E i \in 1..Len(images) : images[i].name = name

Image(name) ==
  images[CHOOSE i \in 1..Len(images) : images[i].name = name].figure[1]

WasPrinted(what) == \E i \in 1..Len(out) : out[i].op = "print" /\ out[i].what = what

PrintedData(what) ==
  out[CHOOSE i \in 1..Len(out) : out[i].op = "print" /\ out[i].what = what].data[1]

\* Row numbers of the rows with rows[i][col] = v
IdxBy(rows, col, v) == {i \in 1..Len(rows) : rows[i][col] = v}

\* Sum of a column over a set of row numbers
RECURSIVE SetSum(_, _, _)
SetSum(idx, rows, col) ==
  IF idx = {} THEN 0
  ELSE LET i == CHOOSE j \in idx : TRUE
       IN rows[i][col] + SetSum(idx \ {i}, rows, col)

RECURSIVE SetSumSq(_, _, _)
SetSumSq(idx, rows, col) ==
  IF idx = {} THEN 0
  ELSE LET i == CHOOSE j \in idx : TRUE
       IN rows[i][col] * rows[i][col] + SetSumSq(idx \ {i}, rows, col)

\* The float f is the mean of the column over the rows numbered idx
IsMeanOf(f, idx, rows, col) ==
  /\ idx # {}
  /\ f[2] > 0
  /\ f[1] * Cardinality(idx) = SetSum(idx, rows, col) * f[2]

StrictlyAscending(x) == \A i \in 1..(Len(x) - 1) : x[i] < x[i + 1]

NoDuplicates(x) == \A i, j \in 1..Len(x) : x[i] = x[j] => i = j

\* The line is the per-ArraySize mean of col over the rows numbered idx:
\* one point per distinct size, ascending, y the mean of the group
IsMeanSeries(line, idx, rows, col) ==
  /\ Len(line.x) = Len(line.y)
  /\ StrictlyAscending(line.x)
  /\ SeqRange(line.x) = {rows[i]["ArraySize"] : i \in idx}
  /\ \A k \in 1..Len(line.x) :
       IsMeanOf(line.y[k], {i \in idx : rows[i]["ArraySize"] = line.x[k]}, rows, col)

TypesIn(rows) == {rows[i]["InputType"] : i \in 1..Len(rows)}
SizesIn(rows) == {rows[i]["ArraySize"] : i \in 1..Len(rows)}

\* The tables with the same rows in another order
RowOrders(rows) == {[i \in 1..Len(rows) |-> rows[p[i]]] : p \in Permutations(1..Len(rows))}

AfterSummary == pc \in {"plots", "theory", "saved"} \/ (pc = "done" /\ FilePresent)
AfterPlots == pc \in {"theory", "saved"} \/ (pc = "done" /\ FilePresent)
AfterTheory == pc = "saved" \/ (pc = "done" /\ FilePresent)

----------------------------------------------------------------------------
(* C1: when benchmark_results.csv does not exist, load_and_analyze_data     *)
(* prints a message naming the file and returns no data; the run ends       *)
(* without the summary, the plots or the validation, and no image is        *)
(* written.                                                                 *)
C1_MissingFileStopsRun ==
  ~FilePresent =>
    /\ pc \in {"main", "load", "done"}
    /\ df = None
    /\ images = <<>>
    /\ \A i \in 1..Len(out) : out[i].op = "print"
    /\ ~WasPrinted("header") /\ ~WasPrinted("plots_saved")
    /\ pc = "done" =>
         /\ Len(out) = 3
         /\ out[3].what = "error_not_found"
         /\ out[3].data = <<csv_file>>

C1_Witness == ~FilePresent /\ pc = "done" /\ WasPrinted("error_not_found")

(* C2: every point of the 'Actual Performance' line at x = n has y equal to *)
(* the mean Time(ns) of the RANDOM records of ArraySize n, whatever the row *)
(* order.                                                                   *)
C2_ActualPairedBySize ==
  AfterTheory =>
    LET line == Image(theory_png).actual
        idx == IdxBy(Loaded, "InputType", "RANDOM")
    IN /\ Len(line.x) = Len(line.y)
       /\ \A k \in 1..Len(line.x) :
            IsMeanOf(line.y[k], {i \in idx : Loaded[i]["ArraySize"] = line.x[k]},
                     Loaded, "Time(ns)")

(* C3: Panel A has, for every distinct InputType d of the table, exactly    *)
(* one series; it has one point per distinct ArraySize among the records of *)
(* type d, in strictly ascending ArraySize order, and the y of the point at *)
(* x = n is the mean Time(ns) of the records of type d and ArraySize n.     *)
C3_PanelASeries ==
  AfterPlots =>
    LET A == Image(performance_png).A
    IN /\ {A[k].label : k \in 1..Len(A)} = TypesIn(Loaded)
       /\ Len(A) = Cardinality(TypesIn(Loaded))
       /\ \A k \in 1..Len(A) :
            IsMeanSeries(A[k], IdxBy(Loaded, "InputType", A[k].label), Loaded, "Time(ns)")

C3_Witness ==
  /\ AfterPlots
  /\ Len(Loaded) = 3
  /\ Loaded[1]["InputType"] = Loaded[2]["InputType"]
  /\ Loaded[1]["InputType"] = Loaded[3]["InputType"]
  /\ Loaded[1]["ArraySize"] > Loaded[2]["ArraySize"]
  /\ Loaded[1]["ArraySize"] = Loaded[3]["ArraySize"]
  /\ Loaded[1]["Time(ns)"] # Loaded[3]["Time(ns)"]

(* C4: the per-ArraySize aggregates of Time(ns) printed by                  *)
(* generate_statistical_summary have one entry per distinct ArraySize; the  *)
(* mean, min, max and the variance under std of an entry are those of the   *)
(* rows of that ArraySize, and when the summary returns every reordering of *)
(* the rows yields the same aggregates.                                     *)
C4_AggregatesBySize ==
  AfterSummary =>
    LET agg == PrintedData("time_by_size")
    IN /\ Len(agg.index) = Len(agg.values)
       /\ StrictlyAscending(agg.index)
       /\ SeqRange(agg.index) = SizesIn(Loaded)
       /\ \A k \in 1..Len(agg.index) :
            LET idx == IdxBy(Loaded, "ArraySize", agg.index[k])
                times == {Loaded[i]["Time(ns)"] : i \in idx}
                c == Cardinality(idx)
                v == agg.values[k]
            IN /\ IsMeanOf(v.mean, idx, Loaded, "Time(ns)")
               /\ v.min \in times /\ \A t \in times : v.min <= t
               /\ v.max \in times /\ \A t \in times : v.max >= t
               /\ IF c = 1 THEN IsNaN(v.std.sqrt)
                  ELSE /\ v.std.sqrt[2] > 0
                       /\ v.std.sqrt[1] * (c * (c - 1)) =
                            (c * SetSumSq(idx, Loaded, "Time(ns)")
                               - SetSum(idx, Loaded, "Time(ns)") * SetSum(idx, Loaded, "Time(ns)"))
                            * v.std.sqrt[2]
       /\ pc = "plots" =>
            \A other \in RowOrders(Loaded) :
              GroupByAgg4(other, "ArraySize", "Time(ns)") = agg

C4_Witness ==
  /\ AfterSummary
  /\ Len(Loaded) = 3
  /\ Loaded[1]["ArraySize"] > Loaded[2]["ArraySize"]
  /\ Loaded[1]["ArraySize"] = Loaded[3]["ArraySize"]
  /\ Loaded[1]["Time(ns)"] > Loaded[3]["Time(ns)"]

(* C5: with the file present, the table changes only by                     *)
(* generate_statistical_summary appending TimePerElement: after each step   *)
(* the rows, their order and the six loaded columns are as loaded, and the  *)
(* two plotting functions leave the table as it is.                         *)
BaseAsLoaded ==
  /\ Len(df.rows) = Len(Loaded)
  /\ SubSeq(df.columns, 1, Len(BaseColumns)) = BaseColumns
  /\ \A i \in 1..Len(Loaded) : \A c \in SeqRange(BaseColumns) : df.rows[i][c] = Loaded[i][c]

C5_OnlyTimePerElementAdded ==
  /\ [](pc = "summary" =>
          /\ BaseAsLoaded
          /\ df.columns = BaseColumns
          /\ \A i \in 1..Len(df.rows) : DOMAIN df.rows[i] = SeqRange(BaseColumns))
  /\ [](AfterSummary =>
          /\ BaseAsLoaded
          /\ df.columns = Append(BaseColumns, "TimePerElement")
          /\ \A i \in 1..Len(df.rows) :
               DOMAIN df.rows[i] = SeqRange(BaseColumns) \cup {"TimePerElement"})
  /\ [][(pc \in {"plots", "theory", "saved"}) => (df' = df)]_vars

C5_Witness ==
  /\ pc = "done" /\ FilePresent
  /\ Len(df.rows) = 3
  /\ df.rows[1]["ArraySize"] > df.rows[2]["ArraySize"]
  /\ HasImage(performance_png) /\ HasImage(theory_png)

(* C6: Panel B has a series for InputType d exactly when d is one of        *)
(* RANDOM, SORTED, WORST_CASE and the table has a record of type d; each    *)
(* series is the mean Comparisons per ArraySize of the records of its type. *)
C6_PanelBSeries ==
  AfterPlots =>
    LET B == Image(performance_png).B
    IN /\ {B[k].label : k \in 1..Len(B)} =
            {"RANDOM", "SORTED", "WORST_CASE"} \cap TypesIn(Loaded)
       /\ NoDuplicates([k \in 1..Len(B) |-> B[k].label])
       /\ \A k \in 1..Len(B) :
            IsMeanSeries(B[k], IdxBy(Loaded, "InputType", B[k].label), Loaded, "Comparisons")

C6_Witness ==
  /\ AfterPlots
  /\ "REVERSED" \in TypesIn(Loaded)
  /\ "RANDOM" \in TypesIn(Loaded)
  /\ "WORST_CASE" \notin TypesIn(Loaded)
  /\ Len(Image(performance_png).B) = 1

(* C7: Panel D holds the boxplot exactly when some record has ArraySize     *)
(* 10000, and the boxplot is drawn over exactly the records of that size;   *)
(* without such a record the panel is empty and performance_analysis.png    *)
(* is written all the same.                                                 *)
C7_PanelDBoxplot ==
  AfterPlots =>
    LET D == Image(performance_png).D
        idx == IdxBy(df.rows, "ArraySize", 10000)
    IN /\ HasImage(performance_png)
       /\ Len(D.boxplot) = (IF idx = {} THEN 0 ELSE 1)
       /\ idx # {} =>
            /\ Len(D.boxplot[1].data) = Cardinality(idx)
            /\ \A i \in idx : \E k \in 1..Len(D.boxplot[1].data) : D.boxplot[1].data[k] = df.rows[i]
            /\ \A k \in 1..Len(D.boxplot[1].data) : D.boxplot[1].data[k]["ArraySize"] = 10000
            /\ D.boxplot[1].x = "InputType" /\ D.boxplot[1].y = "Time(ns)"

C7_WitnessEmpty ==
  AfterPlots /\ 10000 \notin SizesIn(Loaded) /\ HasImage(performance_png)

(* C8: the theoretical line has exactly one point per distinct ArraySize n  *)
(* of the RANDOM records, with y = n * 100 at x = n; records of another     *)
(* InputType give no point to either line.                                  *)
C8_TheoreticalLine ==
  AfterTheory =>
    LET fig == Image(theory_png)
        idx == IdxBy(Loaded, "InputType", "RANDOM")
        sizes == {Loaded[i]["ArraySize"] : i \in idx}
    IN /\ NoDuplicates(fig.theoretical.x)
       /\ SeqRange(fig.theoretical.x) = sizes
       /\ Len(fig.theoretical.y) = Len(fig.theoretical.x)
       /\ \A k \in 1..Len(fig.theoretical.x) :
            fig.theoretical.y[k] = fig.theoretical.x[k] * 100
       /\ NoDuplicates(fig.actual.x)
       /\ SeqRange(fig.actual.x) = sizes
       /\ Len(fig.actual.y) = Len(fig.actual.x)
       /\ \A k \in 1..Len(fig.actual.y) :
            \E n \in sizes :
              IsMeanOf(fig.actual.y[k], {i \in idx : Loaded[i]["ArraySize"] = n},
                       Loaded, "Time(ns)")

C8_Witness ==
  /\ AfterTheory
  /\ Len(Loaded) = 3
  /\ Loaded[1]["InputType"] = "RANDOM" /\ Loaded[1]["ArraySize"] = 10000
  /\ Loaded[2]["InputType"] = "REVERSED" /\ Loaded[2]["ArraySize"] = 0
  /\ Loaded[3]["InputType"] = "RANDOM" /\ Loaded[3]["ArraySize"] = 100

(* C9: when some row has ArraySize = 0, generate_statistical_summary goes   *)
(* through: that row's TimePerElement is infinite or NaN, every row with    *)
(* ArraySize n > 0 and Time(ns) t has TimePerElement t / n, and the run     *)
(* goes on to write both images.                                            *)
C9_ZeroSizeDoesNotAbort ==
  (FilePresent /\ 0 \in SizesIn(Loaded)) =>
    /\ AfterSummary =>
         \A i \in 1..Len(df.rows) :
           LET n == df.rows[i]["ArraySize"]
               t == df.rows[i]["Time(ns)"]
               e == df.rows[i]["TimePerElement"]
           IN IF n = 0 THEN ~IsFinite(e)
              ELSE /\ IsFinite(e)
                   /\ e[2] > 0
                   /\ e[1] * n = t * e[2]
    /\ pc = "done" =>
         /\ WasPrinted("efficiency")
         /\ HasImage(performance_png) /\ HasImage(theory_png)

C9_Witness ==
  /\ pc = "done" /\ FilePresent
  /\ 0 \in SizesIn(Loaded) /\ 10000 \in SizesIn(Loaded)
  /\ HasImage(theory_png)

(* C10: with the file present the steps happen once each and in order:      *)
(* load, summary, performance_analysis.png, theory_vs_practice.png, the     *)
(* 'Plots saved' message; the second image is never written before the     *)
(* first, and the message only after both.                                  *)
StepMarks == {"loaded", "header", performance_png, theory_png, "plots_saved"}

ExpectedSteps == <<"loaded", "header", performance_png, theory_png, "plots_saved">>

StepsDone ==
  LET marks == SelectSeq(out, LAMBDA e : e.op \in {"print", "savefig"} /\ e.what \in StepMarks)
  IN [i \in 1..Len(marks) |-> marks[i].what]

C10_StepsInOrder ==
  FilePresent =>
    /\ Len(StepsDone) <= Len(ExpectedSteps)
    /\ StepsDone = SubSeq(ExpectedSteps, 1, Len(StepsDone))
    /\ [i \in 1..Len(images) |-> images[i].name] =
         SubSeq(<<performance_png, theory_png>>, 1, Len(images))
    /\ HasImage(theory_png) => HasImage(performance_png)
    /\ WasPrinted("plots_saved") => (HasImage(performance_png) /\ HasImage(theory_png))
    /\ pc = "done" => StepsDone = ExpectedSteps /\ Len(images) = 2

C10_Witness == FilePresent /\ pc = "done" /\ WasPrinted("plots_saved")

====
